---- MODULE Spec2Model ----
(***************************************************************************)
(* Parcoom-rs (src/src/lib.rs): a parser-combinator library.               *)
(*                                                                         *)
(* A Rust String is a UTF-8 byte sequence.  The library measures, indexes  *)
(* and slices text by BYTE (text.len(), as_bytes()[i], text[a..b]), so the *)
(* model keeps text as a sequence of bytes 0..255.  Slicing a String at a  *)
(* byte index that is out of range or inside a multi-byte character        *)
(* panics; a panic is an outcome of its own (neither Ok nor Err) and       *)
(* unwinds through every enclosing combinator.                             *)
(*                                                                         *)
(* A Parser is an Arc'd closure; the model keeps a parser as the term that *)
(* built it (a record tagged with the constructor's name) and Apply(p, i)  *)
(* is the call (p.run)(i).                                                 *)
(***************************************************************************)
EXTENDS Integers, Sequences, FiniteSets, TLC

VARIABLES original, cur, call, pc, xs, result

vars == <<original, cur, call, pc, xs, result>>

(* ------------------------------ bounds -------------------------------- *)

\* Longest generated input, in bytes.
MaxLen == 3
\* Largest repetition count handed to many_exact.
MaxCount == 2
\* Passes of the loop of many that are followed (a loop that never ends is
\* followed this far).
MaxPasses == 7

(* ------------------------------- text --------------------------------- *)

\* The characters inputs are made of, as their UTF-8 encodings:
\* 'a' = 61, 'b' = 62 and the two-byte 'e-acute' (U+00E9) = C3 A9.
Chars == {<<97>>, <<98>>, <<195, 169>>}

RECURSIVE StringsUpTo(_)
\* Every well-formed String of at most n characters over Chars.
StringsUpTo(n) ==
    IF n = 0 THEN {<<>>}
    ELSE LET shorter == StringsUpTo(n - 1)
         IN  shorter \cup {c \o s : c \in Chars, s \in shorter}

\* The inputs of the repository's tests that the claims quote.
SampleInputs == {<<49, 49, 49, 97, 97, 97>>, <<97, 97, 97>>, <<104, 101, 108>>}

\* Every String of at most MaxLen bytes over Chars, and the samples.
Inputs == {s \in StringsUpTo(MaxLen) : Len(s) <= MaxLen} \cup SampleInputs

\* A UTF-8 continuation byte (10xxxxxx): not the first byte of a character.
IsContinuation(b) == b >= 128 /\ b < 192

\* str::is_char_boundary: 0 and len are boundaries, an index past len is not.
is_char_boundary(text, i) ==
    \/ i = 0
    \/ i = Len(text)
    \/ i < Len(text) /\ ~IsContinuation(text[i + 1])

\* Whether the slice text[a..b] is taken without a panic.
SliceOk(text, a, b) ==
    /\ a <= b
    /\ b <= Len(text)
    /\ is_char_boundary(text, a)
    /\ is_char_boundary(text, b)

\* `b as char` for a byte b: the character whose code point is b.
AsChar(b) == b

(* --------------------------- values, results --------------------------- *)

CharVal(c)  == [k |-> "char", c |-> c]
StrVal(s)   == [k |-> "str", s |-> s]
VecVal(v)   == [k |-> "vec", xs |-> v]
SomeVal(x)  == [k |-> "some", x |-> x]
NoneVal     == [k |-> "none"]
PairVal(a, b) == [k |-> "pair", a |-> a, b |-> b]

\* format!: the literal text followed by the bytes of a string argument.
Format(lit, arg) == [lit |-> lit, arg |-> arg]

\* ParserError { desc, pos }.  `origin` is a history field the program does not
\* have: the offset of the state the failing primitive was invoked on.
ParserError(desc, pos, origin) == [desc |-> desc, pos |-> pos, origin |-> origin]

Ok(x)  == [ok |-> TRUE, val |-> x]
Err(e) == [ok |-> FALSE, err |-> e]

ParserInput(text, pos) == [text |-> text, pos |-> pos]

\* What a call (p.run)(input) does: it returns (input', result), or it panics,
\* or it never returns.
Ret(inp, res) == [st |-> "ret", inp |-> inp, res |-> res]
Panic == [st |-> "panic"]
Hang  == [st |-> "hang"]

\* text[start..start + len] at pos + start, or a panic.
SubPanics(start, len, s) == ~SliceOk(s.text, start, start + len)

\* input_sub with the offset left where it was.
input_sub_keeps_pos(start, len, s) ==
    ParserInput(SubSeq(s.text, start + 1, start + len), s.pos)

input_sub(start, len, s) ==
    ParserInput(SubSeq(s.text, start + 1, start + len), s.pos + start)

make_input(s) == ParserInput(s, 0)

(* ------------------------------ parsers ------------------------------- *)
(* The constructors, as terms.  A Box<dyn Fn> argument is a name (map, bind) *)
(* or, for a char predicate, the set of code points it accepts.              *)

fail(e)            == [op |-> "fail", e |-> e]
wrap(x)            == [op |-> "wrap", x |-> x]
map(f, p)          == [op |-> "map", f |-> f, p |-> p]
parse_while(pred)  == [op |-> "parse_while", pred |-> pred]
bind(f, p)         == [op |-> "bind", f |-> f, p |-> p]
prefix(prefix_str) == [op |-> "prefix", prefix_str |-> prefix_str]
optional(p)        == [op |-> "optional", p |-> p]
many_exact(n, p)   == [op |-> "many_exact", n |-> n, p |-> p]
many(p)            == [op |-> "many", p |-> p]
any_char           == [op |-> "any_char"]
shl(p1, p2)        == [op |-> "shl", p1 |-> p1, p2 |-> p2]
shr(p1, p2)        == [op |-> "shr", p1 |-> p1, p2 |-> p2]
add(p1, p2)        == [op |-> "add", p1 |-> p1, p2 |-> p2]
bitor(p1, p2)      == [op |-> "bitor", p1 |-> p1, p2 |-> p2]

\* The closures handed to map: f(x).
MapFn(f, x) ==
    CASE f = "some" -> SomeVal(x)
      [] f = "twice" -> PairVal(x, x)

\* The closures handed to bind: f(x) is the parser to go on with.
BindFn(f, x) ==
    CASE f = "then_any" -> any_char
      [] f = "then_fail" -> fail([desc |-> Format("bound", <<>>), pos |-> 7])
      [] f = "then_wrap" -> wrap(SomeVal(x))

RECURSIVE Apply(_, _)

\* fail: (input, Err(e))
fail_run(e, input) == Ret(input, Err(ParserError(e.desc, e.pos, input.pos)))

\* wrap: (input, Ok(x))
wrap_run(x, input) == Ret(input, Ok(x))

map_run(f, p, input) ==
    LET o == Apply(p, input)
    IN  IF o.st # "ret" THEN o
        ELSE IF o.res.ok THEN Ret(o.inp, Ok(MapFn(f, o.res.val)))
        ELSE Ret(o.inp, Err(o.res.err))

RECURSIVE scan(_, _, _)
\* while i < n && p(text[i] as char) { i += 1 }   (i counted from 0)
scan(pred, text, i) ==
    IF i < Len(text) /\ AsChar(text[i + 1]) \in pred
    THEN scan(pred, text, i + 1)
    ELSE i

parse_while_run(pred, input) ==
    LET n == Len(input.text)
        i == scan(pred, input.text, 0)
    IN  IF SubPanics(i, n - i, input) \/ ~SliceOk(input.text, 0, i) THEN Panic
        ELSE Ret(input_sub(i, n - i, input), Ok(StrVal(SubSeq(input.text, 1, i))))

bind_run(f, p, input) ==
    LET o == Apply(p, input)
    IN  IF o.st # "ret" THEN o
        ELSE IF o.res.ok THEN Apply(BindFn(f, o.res.val), o.inp)
        ELSE Ret(o.inp, Err(o.res.err))

prefix_run(prefix_str, input) ==
    LET unexpected_prefix_error == Format("expected ", prefix_str)
        prefix_size == Len(prefix_str)
        input_size == Len(input.text)
    IN  IF SubPanics(0, prefix_size, input) THEN Panic
        ELSE IF input_sub(0, prefix_size, input).text = prefix_str
        THEN IF SubPanics(prefix_size, input_size - prefix_size, input) THEN Panic
             ELSE Ret(input_sub(prefix_size, input_size - prefix_size, input),
                      Ok(StrVal(prefix_str)))
        ELSE Ret(input, Err(ParserError(unexpected_prefix_error, 0, input.pos)))

\* optional that lets the failure through.
optional_run_propagates(p, input) ==
    LET o == Apply(p, input)
    IN  IF o.st # "ret" THEN o
        ELSE IF o.res.ok THEN Ret(o.inp, Ok(SomeVal(o.res.val)))
        ELSE Ret(o.inp, Err(o.res.err))

optional_run(p, input) ==
    LET o == Apply(p, input)
    IN  IF o.st # "ret" THEN o
        ELSE IF o.res.ok THEN Ret(o.inp, Ok(SomeVal(o.res.val)))
        ELSE Ret(o.inp, Ok(NoneVal))

RECURSIVE many_exact_loop(_, _, _, _)
\* `left` iterations of `for _ in 0..n` remain.
many_exact_loop(left, p, input_, acc) ==
    IF left <= 0 THEN Ret(input_, Ok(VecVal(acc)))
    ELSE LET o == Apply(p, input_)
         IN  IF o.st # "ret" THEN o
             ELSE IF o.res.ok
             THEN many_exact_loop(left - 1, p, o.inp, Append(acc, o.res.val))
             ELSE Ret(o.inp, Err(o.res.err))

many_exact_run(n, p, input) == many_exact_loop(n, p, input, <<>>)

\* One pass through the body of `loop` in many, from (input_, xs):
\* the call of p, input_ = input__, and the push or the break.
many_iter(p, input_, acc) ==
    LET o == Apply(p, input_)
    IN  IF o.st # "ret" THEN [next |-> o.st]
        ELSE IF o.res.ok
        THEN [next |-> "loop", input_ |-> o.inp, xs |-> Append(acc, o.res.val)]
        ELSE [next |-> "break", input_ |-> o.inp, xs |-> acc]

RECURSIVE many_loop(_, _, _)
\* The loop of many.  p is a function of its input alone, so a pass that
\* succeeds and hands back the state it was given is followed by the same
\* pass for ever: the call never returns.
many_loop(p, input_, acc) ==
    LET it == many_iter(p, input_, acc)
    IN  CASE it.next = "panic" -> Panic
          [] it.next = "hang"  -> Hang
          [] it.next = "break" -> Ret(it.input_, Ok(VecVal(it.xs)))
          [] it.next = "loop"  ->
                IF it.input_ = input_ THEN Hang
                ELSE many_loop(p, it.input_, it.xs)

many_run(p, input) == many_loop(p, input, <<>>)

any_char_run(input) ==
    LET n == Len(input.text)
    IN  IF n >= 1
        THEN IF SubPanics(1, n - 1, input) THEN Panic
             ELSE Ret(input_sub(1, n - 1, input), Ok(CharVal(AsChar(input.text[1]))))
        ELSE LET empty_input_error ==
                    Format("expected any char, got none (input.len() = " \o ToString(n),
                           <<>>)
             IN  Ret(input, Err(ParserError(empty_input_error, 0, input.pos)))

\* self << p2: keeps self's value
shl_run(p1, p2, input) ==
    LET o1 == Apply(p1, input)
    IN  IF o1.st # "ret" THEN o1
        ELSE IF o1.res.ok
        THEN LET o2 == Apply(p2, o1.inp)
             IN  IF o2.st # "ret" THEN o2
                 ELSE IF o2.res.ok THEN Ret(o2.inp, Ok(o1.res.val))
                 ELSE Ret(o2.inp, Err(o2.res.err))
        ELSE Ret(o1.inp, Err(o1.res.err))

\* self >> p2: keeps p2's value
shr_run(p1, p2, input) ==
    LET o1 == Apply(p1, input)
    IN  IF o1.st # "ret" THEN o1
        ELSE IF o1.res.ok
        THEN LET o2 == Apply(p2, o1.inp)
             IN  IF o2.st # "ret" THEN o2
                 ELSE IF o2.res.ok THEN Ret(o2.inp, Ok(o2.res.val))
                 ELSE Ret(o2.inp, Err(o2.res.err))
        ELSE Ret(o1.inp, Err(o1.res.err))

\* self + p2: keeps both values
add_run(p1, p2, input) ==
    LET o1 == Apply(p1, input)
    IN  IF o1.st # "ret" THEN o1
        ELSE IF o1.res.ok
        THEN LET o2 == Apply(p2, o1.inp)
             IN  IF o2.st # "ret" THEN o2
                 ELSE IF o2.res.ok THEN Ret(o2.inp, Ok(PairVal(o1.res.val, o2.res.val)))
                 ELSE Ret(o2.inp, Err(o2.res.err))
        ELSE Ret(o1.inp, Err(o1.res.err))

\* self | p2 without the clone: p2 runs on the state self left.
bitor_run_no_clone(p1, p2, input) ==
    LET o1 == Apply(p1, input)
    IN  IF o1.st # "ret" THEN o1
        ELSE IF o1.res.ok THEN Ret(o1.inp, Ok(o1.res.val))
        ELSE Apply(p2, o1.inp)

\* self | p2: p2 runs on the input bitor was given (self ran on a clone)
bitor_run(p1, p2, input) ==
    LET o1 == Apply(p1, input)
    IN  IF o1.st # "ret" THEN o1
        ELSE IF o1.res.ok THEN Ret(o1.inp, Ok(o1.res.val))
        ELSE Apply(p2, input)

\* (p.run)(input)
Apply(p, input) ==
    CASE p.op = "fail"        -> fail_run(p.e, input)
      [] p.op = "wrap"        -> wrap_run(p.x, input)
      [] p.op = "map"         -> map_run(p.f, p.p, input)
      [] p.op = "parse_while" -> parse_while_run(p.pred, input)
      [] p.op = "bind"        -> bind_run(p.f, p.p, input)
      [] p.op = "prefix"      -> prefix_run(p.prefix_str, input)
      [] p.op = "optional"    -> optional_run(p.p, input)
      [] p.op = "many_exact"  -> many_exact_run(p.n, p.p, input)
      [] p.op = "many"        -> many_run(p.p, input)
      [] p.op = "any_char"    -> any_char_run(input)
      [] p.op = "shl"         -> shl_run(p.p1, p.p2, input)
      [] p.op = "shr"         -> shr_run(p.p1, p.p2, input)
      [] p.op = "add"         -> add_run(p.p1, p.p2, input)
      [] p.op = "bitor"       -> bitor_run(p.p1, p.p2, input)

\* run that hands the error on as it came.
run_keeps_error(p, input) ==
    LET o == Apply(p, make_input(input))
    IN  IF o.st # "ret" THEN o
        ELSE IF o.res.ok THEN [st |-> "ret", res |-> Ok(o.res.val)]
        ELSE [st |-> "ret",
              res |-> Err([desc |-> o.res.err.desc, pos |-> o.res.err.pos])]

\* run(p, input): Ok(x), or Err with the position of the state that came back.
run(p, input) ==
    LET o == Apply(p, make_input(input))
    IN  IF o.st # "ret" THEN o
        ELSE IF o.res.ok THEN [st |-> "ret", res |-> Ok(o.res.val)]
        ELSE [st |-> "ret",
              res |-> Err([desc |-> o.res.err.desc, pos |-> o.inp.pos])]

(* ------------------------- the parsers exercised ---------------------- *)

\* &'static str arguments of prefix: "a", "b", "ab", "e-acute", "111", "aaa".
Lits == {<<97>>, <<98>>, <<97, 98>>, <<195, 169>>, <<49, 49, 49>>, <<97, 97, 97>>}

\* char predicates, as the code points they accept among those the inputs'
\* bytes and characters can show: nothing, |c| c == 'a', char::is_alphanumeric
\* (it accepts U+00C3 and U+00E9 and rejects U+00A9), |c| c == 'e-acute'.
IsAlphanumeric == {49, 97, 98, 101, 104, 108, 195, 233}
Preds == {{}, {97}, IsAlphanumeric, {233}}

\* A ParserError handed to fail: any description, any position.
SomeError == [desc |-> Format("boom", <<>>), pos |-> 5]

StrPrims  == {prefix(s) : s \in Lits} \cup {parse_while(q) : q \in Preds}
                \cup {fail(SomeError)}
CharPrims == {any_char, wrap(CharVal(120)), fail(SomeError)}
Prims     == StrPrims \cup CharPrims

\* The operands of the sequences that are built.
StrCore  == {prefix(<<97>>), prefix(<<98>>), prefix(<<195, 169>>), fail(SomeError)}
CharCore == {any_char, fail(SomeError)}
Core     == StrCore \cup CharCore

\* Parser<&str> / Parser<String> and Parser<char> terms: the primitives and
\* the sequences p1 >> p2 and p1 << p2 of that type.
StrSubs ==
    StrPrims \cup {shr(a, b) : a \in Core, b \in StrCore}
             \cup {shl(a, b) : a \in StrCore, b \in Core}
CharSubs ==
    CharPrims \cup {shr(a, b) : a \in Core, b \in CharCore}
              \cup {shl(a, b) : a \in CharCore, b \in Core}

\* Terms with a combinator below the top.
Nested ==
    {optional(prefix(<<97>>)), many(prefix(<<97>>)), many(any_char),
     bitor(prefix(<<97>>), prefix(<<98>>)), many_exact(2, any_char),
     map("some", any_char), bind("then_any", prefix(<<97>>)),
     add(prefix(<<97>>), prefix(<<98>>))}

Subs == StrSubs \cup CharSubs \cup Nested

\* Left operands of the sequences called at the top.
Operands == Core \cup Nested

\* Parsers that consume on success: what may have run before the call.
Consumers == {any_char} \cup {prefix(c) : c \in Chars}

\* The parsers handed to run.
Grammars ==
    Subs \cup {many_exact(n, any_char) : n \in 0..(MaxCount + 2)}
         \cup {optional(q) : q \in Prims}
         \cup {shr(a, b) : a \in Consumers, b \in Nested \cup CharSubs}
         \cup {bitor(prefix(<<97, 97, 97>>), prefix(<<49, 49, 49>>)),
               bitor(shr(prefix(<<97>>), prefix(<<98>>)), shr(any_char, fail(SomeError))),
               shl(many(shr(prefix(<<97>>), prefix(<<98>>))), fail(SomeError)),
               shr(optional(shr(prefix(<<97>>), prefix(<<98>>))), any_char)}

NoCall   == [made |-> FALSE]
NoResult == [st |-> "none"]

(* ---------------------------- the machine ----------------------------- *)
(* original: the String given to the driver; cur: the ParserInput the next *)
(* call gets; call: the call made (parser, input, outcome); xs: the Vec of  *)
(* the many loop in progress; result: what run returned.                    *)

Init ==
    /\ original \in Inputs
    /\ cur = make_input(original)
    /\ call = NoCall
    /\ pc = "ready"
    /\ xs = <<>>
    /\ result = NoResult

\* A parser that succeeds and hands its state on, as the left operand of a
\* sequence does.
Advance(p) ==
    /\ pc = "ready"
    /\ LET o == Apply(p, cur)
       IN  /\ o.st = "ret"
           /\ o.res.ok
           /\ cur' = o.inp
    /\ UNCHANGED <<original, call, pc, xs, result>>

\* (p.run)(cur)
Call(p) ==
    /\ call' = [made |-> TRUE, p |-> p, input |-> cur, out |-> Apply(p, cur)]
    /\ pc' = "called"
    /\ UNCHANGED <<original, cur, xs, result>>

CallFail       == pc = "ready" /\ Call(fail(SomeError))
CallWrap       == pc = "ready" /\ Call(wrap(CharVal(120)))
CallAnyChar    == pc = "ready" /\ Call(any_char)
CallPrefix     == pc = "ready" /\ \E s \in Lits : Call(prefix(s))
CallParseWhile == pc = "ready" /\ \E q \in Preds : Call(parse_while(q))
CallMap        == pc = "ready" /\ \E f \in {"some", "twice"}, p \in Subs : Call(map(f, p))
CallBind       == pc = "ready" /\ \E f \in {"then_any", "then_fail", "then_wrap"}, p \in Subs :
                      Call(bind(f, p))
CallOptional   == pc = "ready" /\ \E p \in Subs : Call(optional(p))
CallManyExact  == pc = "ready" /\ \E n \in 0..MaxCount, p \in Subs : Call(many_exact(n, p))
CallShl        == pc = "ready" /\ \E p1 \in Operands, p2 \in Prims : Call(shl(p1, p2))
CallShr        == pc = "ready" /\ \E p1 \in Operands, p2 \in Prims : Call(shr(p1, p2))
CallAdd        == pc = "ready" /\ \E p1 \in Operands, p2 \in Prims : Call(add(p1, p2))
CallBitor      == pc = "ready" /\ \E ps \in (StrSubs \X StrPrims) \cup (CharSubs \X CharPrims) :
                      Call(bitor(ps[1], ps[2]))

\* many(p) is entered: xs = Vec::new(), input_ = input.
ManyEnter ==
    /\ pc = "ready"
    /\ \E p \in Subs :
        /\ call' = [made |-> TRUE, p |-> many(p), input |-> cur, out |-> [st |-> "running"]]
        /\ xs' = <<>>
        /\ pc' = "loop"
        /\ UNCHANGED <<original, cur, result>>

\* One pass of the loop of many: cur is input_.
ManyPass ==
    /\ pc = "loop"
    /\ Len(xs) < MaxPasses
    /\ LET it == many_iter(call.p.p, cur, xs)
       IN  CASE it.next = "loop" ->
                  /\ cur' = it.input_
                  /\ xs' = it.xs
                  /\ UNCHANGED <<call, pc>>
             [] it.next = "break" ->
                  /\ cur' = it.input_
                  /\ call' = [call EXCEPT !.out = Ret(it.input_, Ok(VecVal(it.xs)))]
                  /\ pc' = "called"
                  /\ UNCHANGED xs
             [] OTHER ->
                  /\ call' = [call EXCEPT !.out = [st |-> it.next]]
                  /\ pc' = "called"
                  /\ UNCHANGED <<cur, xs>>
    /\ UNCHANGED <<original, result>>

\* run(p, original)
RunDriver ==
    /\ pc = "ready"
    /\ cur = make_input(original)
    /\ \E p \in Grammars :
        /\ call' = [made |-> TRUE, p |-> p, input |-> cur, out |-> Apply(p, cur)]
        /\ result' = run(p, original)
        /\ pc' = "done"
        /\ UNCHANGED <<original, cur, xs>>

Next ==
    \/ \E p \in Consumers : Advance(p)
    \/ CallFail
    \/ CallWrap
    \/ CallAnyChar
    \/ CallPrefix
    \/ CallParseWhile
    \/ CallMap
    \/ CallBind
    \/ CallOptional
    \/ CallManyExact
    \/ CallShl
    \/ CallShr
    \/ CallAdd
    \/ CallBitor
    \/ ManyEnter
    \/ ManyPass
    \/ RunDriver

Spec == Init /\ [][Next]_vars

(* ------------------------------ claims -------------------------------- *)

\* A call of the parser built by `op` has been made and has returned.
Returned(op) == call.made /\ call.p.op = op /\ call.out.st = "ret"

\* The characters (code points) a String of one- and two-byte encodings holds.
RECURSIVE Decode(_)
Decode(text) ==
    IF text = <<>> THEN <<>>
    ELSE IF text[1] < 128 THEN <<text[1]>> \o Decode(Tail(text))
    ELSE <<(text[1] - 192) * 64 + (text[2] - 128)>> \o Decode(Tail(Tail(text)))

IsAscii(text) == \A i \in 1..Len(text) : text[i] < 128

\* state s holds the suffix of the original input that starts at its offset
SuffixAt(s) ==
    /\ s.pos <= Len(original)
    /\ s.text = SubSeq(original, s.pos + 1, Len(original))

\* C1: alternative(p1, p2) returns p1's result and state when p1 succeeds; when
\* p1 fails it returns exactly what p2 returns on the state alternative was
\* given (so p2's error when both fail); and run of
\* alternative(literal("aaa"), literal("111")) on "111aaa" is Ok("111").
C1_AlternativeBacktracks ==
    /\ call.made /\ call.p.op = "bitor" =>
          LET o1 == Apply(call.p.p1, call.input)
              o2 == Apply(call.p.p2, call.input)
          IN  /\ o1.st = "ret" /\ o1.res.ok =>
                    call.out = Ret(o1.inp, Ok(o1.res.val))
              /\ o1.st = "ret" /\ ~o1.res.ok => call.out = o2
              /\ o1.st = "ret" /\ ~o1.res.ok /\ o2.st = "ret" /\ ~o2.res.ok =>
                    /\ call.out.res.err = o2.res.err
                    /\ call.out.inp = o2.inp
    /\ ( /\ pc = "done"
         /\ call.p = bitor(prefix(<<97, 97, 97>>), prefix(<<49, 49, 49>>))
         /\ original = <<49, 49, 49, 97, 97, 97>> ) =>
          result = [st |-> "ret", res |-> Ok(StrVal(<<49, 49, 49>>))]

\* C1 witness: the left alternative failed after consuming and the right one
\* succeeded from the state the alternative was given.
C1_Witness ==
    /\ Returned("bitor")
    /\ LET o1 == Apply(call.p.p1, call.input)
       IN  o1.st = "ret" /\ ~o1.res.ok /\ o1.inp.pos > call.input.pos
    /\ call.out.res.ok
    /\ call.out.inp.pos > call.input.pos

\* C2: literal(e) on a remaining input shorter than e returns an ordinary
\* failure "expected <e>" and the state it was given.
C2_ShortInputFails ==
    ( /\ call.made
      /\ call.p.op = "prefix"
      /\ Len(call.input.text) < Len(call.p.prefix_str) ) =>
        /\ call.out.st = "ret"
        /\ ~call.out.res.ok
        /\ call.out.res.err.desc = Format("expected ", call.p.prefix_str)
        /\ call.out.inp = call.input

\* C3: when the loop of repeat(p) ends, the state returned is the one the last
\* successful iteration returned (the state the failing attempt was given).
C3_FailedAttemptDiscarded ==
    [][ ( /\ pc = "loop"
          /\ pc' = "called"
          /\ call'.out.st = "ret" ) =>
            /\ call'.out.res = Ok(VecVal(xs))
            /\ call'.out.inp = cur ]_vars

\* The primitives that can fail.
FailingPrimitive(p) == p.op \in {"fail", "prefix", "any_char"}

\* C4 as claimed: whenever p fails on s, optional(p) succeeds with None and
\* returns s itself; whenever p succeeds, Some(value) and p's state.
C4_OptionalNeverConsumes ==
    call.made /\ call.p.op = "optional" =>
        LET o == Apply(call.p.p, call.input)
        IN  /\ o.st = "ret" /\ ~o.res.ok => call.out = Ret(call.input, Ok(NoneVal))
            /\ o.st = "ret" /\ o.res.ok =>
                  call.out = Ret(o.inp, Ok(SomeVal(o.res.val)))

\* C4 amended: whenever p fails on s, optional(p) succeeds with None and
\* returns the state p returned with its failure, which is s when p is a
\* primitive; whenever p succeeds, Some(value) and p's state.
C4_OptionalKeepsFailureState ==
    call.made /\ call.p.op = "optional" =>
        LET o == Apply(call.p.p, call.input)
        IN  /\ o.st = "ret" /\ ~o.res.ok =>
                  /\ call.out = Ret(o.inp, Ok(NoneVal))
                  /\ FailingPrimitive(call.p.p) => call.out.inp = call.input
            /\ o.st = "ret" /\ o.res.ok =>
                  call.out = Ret(o.inp, Ok(SomeVal(o.res.val)))

\* C4 witness: optional of a sequence whose first part succeeded and whose
\* second part failed returned None and a state past the one it was given.
C4_Witness ==
    /\ Returned("optional")
    /\ call.p.p.op = "shr"
    /\ call.out.res = Ok(NoneVal)
    /\ call.out.inp.pos > call.input.pos

\* C5: when run fails, the error has the description of the error that reached
\* it and the offset of the state returned with that error, which is the offset
\* the failing primitive was invoked at, whatever position the error carried;
\* when run succeeds it returns the value alone.
C5_RunReportsFailureOffset ==
    pc = "done" /\ result.st = "ret" =>
        /\ call.out.st = "ret"
        /\ result.res.ok = call.out.res.ok
        /\ ~result.res.ok =>
              /\ result.res.err.desc = call.out.res.err.desc
              /\ result.res.err.pos = call.out.inp.pos
              /\ result.res.err.pos = call.out.res.err.origin
        /\ result.res.ok => result.res = Ok(call.out.res.val)

\* C5 witness: run failed past offset 0 on an error that carried another position.
C5_Witness ==
    /\ pc = "done"
    /\ result.st = "ret"
    /\ ~result.res.ok
    /\ result.res.err.pos > 0
    /\ call.out.res.err.pos # result.res.err.pos

\* C6: run of any_char on "" fails with the description
\* "expected any char, got none (input.len() = 0)" and position 0, consuming
\* nothing; on a non-empty input it succeeds with the first character and
\* consumes that one character.
C6_AnyChar ==
    pc = "done" /\ call.p = any_char =>
        IF original = <<>>
        THEN /\ result = [st |-> "ret",
                          res |-> Err([desc |-> Format("expected any char, got none (input.len() = 0)", <<>>),
                                       pos |-> 0])]
             /\ call.out.inp = call.input
        ELSE /\ result = [st |-> "ret", res |-> Ok(CharVal(Decode(original)[1]))]
             /\ Decode(call.out.inp.text) = Tail(Decode(original))

\* C7: run of repeat_exact(n, any_char()) on s succeeds with the first n
\* characters of s when s has at least n, and fails with any_char's error at
\* position len(s) when s has fewer.
C7_ManyExactAnyChar ==
    pc = "done" /\ call.p.op = "many_exact" /\ call.p.p = any_char =>
        LET n == call.p.n
            chars == Decode(original)
        IN  IF Len(chars) >= n
            THEN result = [st |-> "ret",
                           res |-> Ok(VecVal([i \in 1..n |-> CharVal(chars[i])]))]
            ELSE /\ result.st = "ret"
                 /\ ~result.res.ok
                 /\ result.res.err.desc = any_char_run(ParserInput(<<>>, 0)).res.err.desc
                 /\ result.res.err.pos = Len(original)

RECURSIVE LongestPrefix(_, _)
\* The longest prefix of a sequence of characters all of which satisfy pred.
LongestPrefix(chars, pred) ==
    IF chars # <<>> /\ chars[1] \in pred
    THEN <<chars[1]>> \o LongestPrefix(Tail(chars), pred)
    ELSE <<>>

\* C8: take_while(pred) on s succeeds with the longest prefix of s whose
\* characters all satisfy pred, and returns s without that prefix, the offset
\* moved by the prefix's length.
C8_ParseWhileLongestPrefix ==
    call.made /\ call.p.op = "parse_while" =>
        LET want == LongestPrefix(Decode(call.input.text), call.p.pred)
        IN  /\ call.out.st = "ret"
            /\ call.out.res.ok
            /\ call.out.res.val.k = "str"
            /\ Decode(call.out.res.val.s) = want
            /\ call.out.res.val.s \o call.out.inp.text = call.input.text
            /\ call.out.inp.pos = call.input.pos + Len(call.out.res.val.s)

\* C9: the loop of repeat(any_char()) ends, with every character of the input
\* in order and a state with no text left at the offset of the input's end; and
\* a loop whose parser succeeded without consuming does not end.
C9_ManyAnyCharTerminates ==
    /\ ( /\ pc = "called"
         /\ call.p = many(any_char)
         /\ call.input = make_input(original) ) =>
          /\ call.out = Ret(ParserInput(<<>>, Len(original)),
                            Ok(VecVal([i \in 1..Len(Decode(original)) |->
                                          CharVal(Decode(original)[i])])))
          /\ Len(xs) = Len(Decode(original))
    /\ ( /\ pc = "called"
         /\ call.p.op = "many" ) =>
          LET o == Apply(call.p.p, cur)
          IN  ~(o.st = "ret" /\ o.res.ok /\ o.inp = cur)

\* C10: every state a parser is given, and every state it returns, holds the
\* suffix of the original input that starts at its offset, and the offset a
\* parser returns is not below the offset it was given.
C10_SuffixAndMonotone ==
    /\ SuffixAt(cur)
    /\ call.made =>
          /\ SuffixAt(call.input)
          /\ call.out.st = "ret" =>
                /\ SuffixAt(call.out.inp)
                /\ call.out.inp.pos >= call.input.pos

\* C10 witness: a combinator given a state past offset 0 returned a failure
\* at a state further on.
C10_Witness ==
    /\ call.made
    /\ call.p.op \in {"shl", "shr", "add", "bind", "many_exact"}
    /\ call.input.pos > 0
    /\ call.out.st = "ret"
    /\ ~call.out.res.ok
    /\ call.out.inp.pos > call.input.pos

(* ---------- what holds of the claims the code does not meet ----------- *)

\* C6, C7 on inputs of one-byte characters: run of any_char and of
\* repeat_exact(n, any_char()) return what the claims say, but for the
\* description, which ends "(input.len() = 0" with no closing parenthesis.
C7_OnAscii ==
    pc = "done" /\ IsAscii(original) =>
        /\ call.p = any_char /\ original # <<>> =>
              result = [st |-> "ret", res |-> Ok(CharVal(original[1]))]
        /\ call.p = any_char /\ original = <<>> =>
              result = [st |-> "ret",
                        res |-> Err([desc |-> Format("expected any char, got none (input.len() = 0", <<>>),
                                     pos |-> 0])]
        /\ call.p.op = "many_exact" /\ call.p.p = any_char =>
              IF Len(original) >= call.p.n
              THEN result = [st |-> "ret",
                             res |-> Ok(VecVal([i \in 1..call.p.n |-> CharVal(original[i])]))]
              ELSE result = [st |-> "ret",
                             res |-> Err([desc |-> Format("expected any char, got none (input.len() = 0", <<>>),
                                          pos |-> Len(original)])]

\* C8 on inputs of one-byte characters: take_while returns the longest prefix
\* whose characters satisfy the predicate, and the rest of the state.
C8_OnAscii ==
    call.made /\ call.p.op = "parse_while" /\ IsAscii(original) =>
        /\ call.out.st = "ret"
        /\ call.out.res = Ok(StrVal(LongestPrefix(call.input.text, call.p.pred)))
        /\ call.out.res.val.s \o call.out.inp.text = call.input.text
        /\ call.out.inp.pos = call.input.pos + Len(call.out.res.val.s)

\* C9 on inputs of one-byte characters: the loop of repeat(any_char()) ends
\* after one pass per character with all of them and nothing left.
C9_OnAscii ==
    ( /\ pc = "called"
      /\ call.p = many(any_char)
      /\ IsAscii(original) ) =>
        /\ call.out = Ret(ParserInput(<<>>, Len(original)),
                          Ok(VecVal([i \in 1..Len(call.input.text) |->
                                        CharVal(call.input.text[i])])))
        /\ Len(xs) = Len(call.input.text)

\* C9: a pass of the loop of repeat(p) in which p succeeds without consuming
\* is followed by another pass, never by the end of the loop.
C9_NoProgressNoEnd ==
    [][ ( /\ pc = "loop"
          /\ LET o == Apply(call.p.p, cur)
             IN  o.st = "ret" /\ o.res.ok /\ o.inp = cur ) => pc' = "loop" ]_vars

\* C3, C9: the loop followed pass by pass ends as many_run says, and a loop
\* still running after MaxPasses passes is one many_run finds endless.
ManyLoopAgrees ==
    /\ pc = "called" /\ call.p.op = "many" =>
          call.out = many_run(call.p.p, call.input)
    /\ pc = "loop" /\ Len(xs) = MaxPasses =>
          many_run(call.p.p, call.input) = Hang

====
